---- MODULE Spec2Model ----
(***************************************************************************)
(* Model of the depth-frame-to-tracked-entity pipeline of the Kinect ghost *)
(* installations: simple_person_ghost.py (tracker, decoration assignment,  *)
(* depth normaliser, control-panel callbacks), particle_ghosting_effect.py *)
(* and video_ghosting_effect.py (silhouette trail; their track_people and  *)
(* normalize_depth are line-for-line copies of simple_person_ghost.py).    *)
(*                                                                         *)
(* Python lists are sequences (index 1 here is Python index 0), dicts are  *)
(* functions on their key set, None/absent is a sentinel.                  *)
(***************************************************************************)
EXTENDS Integers, Sequences, FiniteSets, TLC

VARIABLES
    previous_blobs,     \* self.previous_blobs: list of {'center', 'id'}
    person_counter,     \* self.person_counter
    person_blobs,       \* the list track_people returned last
    issued,             \* history: every id minted so far, in minting order
    observed,           \* history: the cases the last track_people call met
    detection,          \* history: the regions of the depth frame
                        \* find_all_person_blobs saw last, their normalised
                        \* values and its mask
    frames,             \* history: the frames fed so far (scenario runs only)
    followed,           \* history: one physical object followed through the frames
    outputs,            \* history: the lists track_people returned, frame by
                        \* frame (recorded runs only)
    ghost_sprites,      \* self.ghost_sprites
    person_ghost_map,   \* self.person_ghost_map
    person_fade_data,   \* self.person_fade_data
    now,                \* time.time(), in quarter seconds
    last_call,          \* what the last decoration call was and returned
    first_return,       \* history: id -> what its first assign call returned
    ghost_trails,       \* self.ghost_trails
    pushed,             \* history: every silhouette pushed, in push order
    depth_min,          \* self.depth_min (mm)
    depth_max,          \* self.depth_max (mm)
    normalized,         \* history: the pixel last normalised, the band it
                        \* was normalised under and normalize_depth's result
    raw_band,           \* history: the frame last masked by the raw depth
                        \* band, the band, the mask and what was returned
    frame_counter,      \* self.frame_counter (ParticleGhostingEffect)
    last_silhouette,    \* self.last_silhouette (ParticleGhostingEffect)
    capture_background, \* self.capture_background (ParticleGhostingEffect)
    background_image,   \* self.background_image: None or the frames averaged
    time_exposure_start_time,   \* self.time_exposure_start_time: None or a time
    time_exposure_frames_list,  \* self.time_exposure_frames_list
    restarted,          \* history: a capture request was taken up while a
                        \* time exposure was in progress
    loop                \* which run() loop is running and what its last
                        \* iteration got from the camera and did

vars == <<previous_blobs, person_counter, person_blobs, issued, observed, detection,
          frames, followed, outputs, ghost_sprites, person_ghost_map, person_fade_data, now,
          last_call, first_return, ghost_trails, pushed, depth_min, depth_max,
          normalized, raw_band, frame_counter, last_silhouette, capture_background,
          background_image, time_exposure_start_time, time_exposure_frames_list,
          restarted, loop>>

trackerVars == <<previous_blobs, person_counter, person_blobs, issued,
                 observed, detection, frames, followed, outputs, loop>>
ghostVars == <<ghost_sprites, person_ghost_map, person_fade_data, now, last_call,
               first_return>>
captureVars == <<capture_background, background_image, time_exposure_start_time,
                 time_exposure_frames_list, restarted>>
trailVars == <<ghost_trails, pushed, frame_counter, last_silhouette, captureVars>>
depthVars == <<depth_min, depth_max, normalized, raw_band>>

(***************************************************************************)
(* Bounds of the model.                                                    *)
(***************************************************************************)
\* blobs in one frame
MaxBlobs == 2
\* cap on person_counter (ids minted in one run)
MaxIds == 3
\* frames of a recorded scenario run
MaxFrames == 3
\* person ids handed to the decoration calls
MaxPersons == 2
\* clock ticks (quarter seconds) of a run
MaxTime == 2
\* silhouettes pushed to the trail in a run
MaxPushes == 7
\* millimetres the distance trackbars are moved over (from 0)
MaxMm == 5
\* raw depth of a pixel (from 0), besides the depths around the default band
MaxDepth == 6
MaxIterations == 4

(***************************************************************************)
(* Identity tracker: SimplePersonGhost.track_people                        *)
(***************************************************************************)
\* pixels: `dist < 100` in the matching loop
MatchDistance == 100
\* a blob tuple without its fifth element (no id attached yet)
NoId == 0
\* best_match = None
NoMatch == 0
\* min_dist = float('inf')
Inf == -1

\* Centroids a blob can have.  (100,100)-(104,101) are 4.1 px apart,
\* (100,100)-(200,100) exactly 100 px, (104,101)-(200,100) 96.0 px, and
\* (400,400) is more than 100 px from every other point.
Points == { <<100, 100>>, <<104, 101>>, <<200, 100>>, <<400, 400>> }

\* A 4-tuple (cx, cy, blob_depth, contour) as find_all_person_blobs builds
\* it.  blob_depth and contour are copied through track_people untouched and
\* take no part in matching; they are left out of the record.
Blob(p) == [cx |-> p[1], cy |-> p[2], id |-> NoId]

RECURSIVE SeqsUpTo(_, _)
SeqsUpTo(S, n) ==
    IF n = 0 THEN { <<>> }
    ELSE LET shorter == SeqsUpTo(S, n - 1)
         IN  shorter \cup { Append(s, x) : s \in shorter, x \in S }

\* The blob lists a frame can hand to track_people.
Frames == SeqsUpTo({ Blob(p) : p \in Points }, MaxBlobs)

\* (cx - px)**2 + (cy - py)**2, the argument of np.sqrt.  The code compares
\* dist = np.sqrt(d2); on the integers met here the correctly rounded square
\* root is strictly increasing and sqrt(10000) = 100.0 exactly, so
\* dist < min_dist iff d2 < min_d2 and dist < 100 iff d2 < 100 * 100.
Dist2(cx, cy, px, py) == (cx - px) * (cx - px) + (cy - py) * (cy - py)

\* dist < 100
WithinThresholdLoose(d2) == d2 <= MatchDistance * MatchDistance
WithinThresholdAlways(d2) == TRUE
WithinThreshold(d2) == d2 < MatchDistance * MatchDistance

\* dist < min_dist
Closer(d2, min_d2) == min_d2 = Inf \/ d2 < min_d2

\* The inner loop over current_blobs for one previous blob: the running
\* (min_dist, best_match) pair, skipping blobs already matched.
RECURSIVE InnerLoop(_, _, _, _, _, _)
InnerLoop(prev_blob, current_blobs, matched, i, min_d2, best_match) ==
    IF i > Len(current_blobs) THEN best_match
    ELSE IF matched[i]
         THEN InnerLoop(prev_blob, current_blobs, matched, i + 1, min_d2, best_match)
         ELSE LET d2 == Dist2(current_blobs[i].cx, current_blobs[i].cy,
                              prev_blob.center[1], prev_blob.center[2])
              IN  IF Closer(d2, min_d2) /\ WithinThreshold(d2)
                  THEN InnerLoop(prev_blob, current_blobs, matched, i + 1, d2, i)
                  ELSE InnerLoop(prev_blob, current_blobs, matched, i + 1,
                                 min_d2, best_match)

\* prev_blob['id'] of the k-th previous blob (prev_id, the enumerate index,
\* is bound by the loop and never used).
ReusedIdEnumerate(prev, k) == k - 1
ReusedId(prev, k) == prev[k].id

\* matched[best_match] = True
MarkMatchedNever(matched, best_match) == matched
MarkMatched(matched, best_match) == [matched EXCEPT ![best_match] = TRUE]

\* The outer loop over previous_blobs, from its k-th element on.
RECURSIVE MatchPrevious(_, _, _, _)
MatchPrevious(prev, k, current_blobs, matched) ==
    IF k > Len(prev) THEN [blobs |-> current_blobs, matched |-> matched]
    ELSE LET best_match == InnerLoop(prev[k], current_blobs, matched, 1, Inf, NoMatch)
         IN  IF best_match # NoMatch
             THEN MatchPrevious(prev, k + 1,
                      [current_blobs EXCEPT ![best_match].id = ReusedId(prev, k)],
                      MarkMatched(matched, best_match))
             ELSE MatchPrevious(prev, k + 1, current_blobs, matched)

\* The id written into the tuple of unmatched blob i: self.person_counter,
\* read after the increment.
NewIdByIndex(counter, i) == i
NewIdBeforeIncrement(counter, i) == counter - 1
NewId(counter, i) == counter

\* self.person_counter += 1
IncrementCounterStuck(counter) == counter
IncrementCounter(counter) == counter + 1

\* The loop over the matched flags that gives every unmatched blob a new id.
RECURSIVE AssignNewIds(_, _, _, _)
AssignNewIds(current_blobs, matched, i, counter) ==
    IF i > Len(current_blobs)
    THEN [blobs |-> current_blobs, matched |-> matched, counter |-> counter]
    ELSE IF ~matched[i]
         THEN LET c == IncrementCounter(counter)
              IN  AssignNewIds([current_blobs EXCEPT ![i].id = NewId(c, i)],
                               matched, i + 1, c)
         ELSE AssignNewIds(current_blobs, matched, i + 1, counter)

\* self.previous_blobs = [{'center': (cx, cy), 'id': pid} for ... in current_blobs]
PreviousFromStale(prev, current_blobs) ==
    IF current_blobs = <<>> THEN prev
    ELSE [i \in 1..Len(current_blobs) |->
            [center |-> <<current_blobs[i].cx, current_blobs[i].cy>>,
             id |-> current_blobs[i].id]]
PreviousFrom(prev, current_blobs) ==
    [i \in 1..Len(current_blobs) |->
        [center |-> <<current_blobs[i].cx, current_blobs[i].cy>>,
         id |-> current_blobs[i].id]]

\* The second loop, run on what the first loop left.
AssignFrom(m, counter) == AssignNewIds(m.blobs, m.matched, 1, counter)

\* track_people up to its last assignment, as a function of the tracker
\* state and the frame's blobs: the blobs with their ids, the matched flags
\* and the counter.
TrackPeople(prev, counter, current_blobs) ==
    AssignFrom(MatchPrevious(prev, 1, current_blobs,
                             [i \in 1..Len(current_blobs) |-> FALSE]),
               counter)

\* The ids minted by one call, in minting order (history only).
Minted(r) ==
    LET idx == { i \in 1..Len(r.blobs) : ~r.matched[i] }
        RECURSIVE Pick(_)
        Pick(i) == IF i > Len(r.blobs) THEN <<>>
                   ELSE IF i \in idx THEN <<r.blobs[i].id>> \o Pick(i + 1)
                   ELSE Pick(i + 1)
    IN  Pick(1)

\* Squared distance between a previous blob's centre and a blob's centroid.
D2(e, b) == Dist2(b.cx, b.cy, e.center[1], e.center[2])

Near(e, b) == D2(e, b) < MatchDistance * MatchDistance

IdsOf(s) == { s[i].id : i \in DOMAIN s }

\* Blob i is the only blob under 100 px of entity k, and entity k the only
\* entity under 100 px of blob i.
Isolated(prev, blobs, k, i) ==
    /\ \A k2 \in DOMAIN prev : k2 # k => ~Near(prev[k2], blobs[i])
    /\ \A i2 \in DOMAIN blobs : i2 # i => ~Near(prev[k], blobs[i2])

\* History only: which cases a call met, read off the state it found (prev),
\* the blobs it was given and its result r.
\*  far_pair:       two blobs, each more than 100 px from every existing
\*                  entity (of which there is at least one), both got ids
\*  nearest_of_two: an entity with two unmatched blobs under 100 px took the
\*                  nearer one, which came second in the list
\*  at_threshold:   an entity whose only unmatched blob lay at exactly 100 px
\*                  went unmatched
Observe(prev, current_blobs, r) ==
    [far_pair |->
        /\ Len(prev) >= 1
        /\ \E i, j \in DOMAIN current_blobs :
              /\ i < j
              /\ \A k \in DOMAIN prev :
                    /\ D2(prev[k], current_blobs[i]) > MatchDistance * MatchDistance
                    /\ D2(prev[k], current_blobs[j]) > MatchDistance * MatchDistance,
     nearest_of_two |->
        /\ Len(prev) >= 1
        /\ Len(current_blobs) >= 2
        /\ Near(prev[1], current_blobs[1])
        /\ Near(prev[1], current_blobs[2])
        /\ D2(prev[1], current_blobs[2]) < D2(prev[1], current_blobs[1])
        /\ r.blobs[2].id = prev[1].id,
     at_threshold |->
        /\ Len(prev) = 1
        /\ Len(current_blobs) = 1
        /\ D2(prev[1], current_blobs[1]) = MatchDistance * MatchDistance
        /\ r.blobs[1].id # prev[1].id]

NothingObserved ==
    [far_pair |-> FALSE, nearest_of_two |-> FALSE, at_threshold |-> FALSE]

\* One call track_people(current_blobs).  The first call finds no
\* previous_blobs attribute and creates it empty with person_counter = 0,
\* which is the state Init starts from.
track_people(current_blobs) ==
    \E r \in { TrackPeople(previous_blobs, person_counter, current_blobs) } :
        /\ r.counter <= MaxIds
        /\ previous_blobs' = PreviousFrom(previous_blobs, r.blobs)
        /\ person_counter' = r.counter
        /\ person_blobs' = r.blobs
        /\ issued' = issued \o Minted(r)

TrackFrame ==
    /\ \E current_blobs \in Frames :
          /\ track_people(current_blobs)
          /\ observed' = Observe(previous_blobs, current_blobs,
                                 TrackPeople(previous_blobs, person_counter, current_blobs))
    /\ UNCHANGED <<detection, frames, followed, outputs, loop, ghostVars, trailVars, depthVars>>

\* History only: the camera's view of one physical object.  index is the
\* place of the object's blob in the frame just processed (0: not in view),
\* id0 the id that blob got in the first frame of the object's present run,
\* isolated whether in every later frame of the run the object's blob was
\* Isolated from the other blobs and entities, moved whether its centroid
\* changed in one of those frames.
NotFollowed == [index |-> 0, id0 |-> 0, isolated |-> TRUE, moved |-> FALSE]

\* The object is at blob i of the frame (i = 0: it has left the view).  An
\* object in view moves less than 100 px from one frame to the next.
Follow(f, prev, current_blobs, out, i) ==
    IF i = 0 THEN NotFollowed
    ELSE IF f.index = 0
         THEN [index |-> i, id0 |-> out[i].id, isolated |-> TRUE, moved |-> FALSE]
         ELSE [index    |-> i,
               id0      |-> f.id0,
               isolated |-> f.isolated /\ Isolated(prev, current_blobs, f.index, i),
               moved    |-> f.moved \/ D2(prev[f.index], current_blobs[i]) > 0]

\* Frames of the followed runs: blobs with distinct centroids, 60 px, 40 px
\* and exactly 100 px apart.
FollowFrames ==
    { f \in SeqsUpTo({ Blob(p) : p \in { <<100, 100>>, <<160, 100>>, <<200, 100>> } },
                     MaxBlobs) :
        \A i, j \in DOMAIN f : i # j => f[i] # f[j] }

\* One frame in which the environment also says where the followed object is.
FollowFrame ==
    /\ \E current_blobs \in FollowFrames :
          /\ track_people(current_blobs)
          /\ \E i \in 0..Len(current_blobs) :
                /\ (followed.index # 0 /\ i # 0)
                      => Near(previous_blobs[followed.index], current_blobs[i])
                /\ followed' = Follow(followed, previous_blobs, current_blobs,
                                      person_blobs', i)
    /\ UNCHANGED <<observed, detection, frames, outputs, loop, ghostVars, trailVars, depthVars>>

\* One frame of a recorded run: at most one blob per frame, the frames kept.
ScenarioFrames == SeqsUpTo({ Blob(p) : p \in Points }, 1)

FeedFrame ==
    /\ Len(frames) < MaxFrames
    /\ \E current_blobs \in ScenarioFrames :
          /\ track_people(current_blobs)
          /\ frames' = Append(frames, current_blobs)
    /\ UNCHANGED <<observed, detection, followed, outputs, loop, ghostVars, trailVars, depthVars>>

\* Frames of the recorded runs: blobs 60 px and 300 px apart, alone and in
\* pairs, and a blob half way between two others, alone and with a blob
\* 40 px from the second of them and exactly 100 px from the first.
RecordedFrames ==
    { <<>>,
      <<Blob(<<100, 100>>)>>, <<Blob(<<160, 100>>)>>, <<Blob(<<400, 100>>)>>,
      <<Blob(<<100, 100>>), Blob(<<160, 100>>)>>,
      <<Blob(<<160, 100>>), Blob(<<100, 100>>)>>,
      <<Blob(<<100, 100>>), Blob(<<400, 100>>)>>,
      <<Blob(<<130, 100>>)>>,
      <<Blob(<<200, 100>>), Blob(<<130, 100>>)>> }

\* One frame of a recorded run: what track_people was given and what it
\* returned are kept.
RecordFrame ==
    /\ Len(outputs) < MaxFrames
    /\ \E current_blobs \in RecordedFrames :
          /\ track_people(current_blobs)
          /\ frames' = Append(frames, current_blobs)
          /\ outputs' = Append(outputs, person_blobs')
    /\ UNCHANGED <<observed, detection, followed, loop, ghostVars,
                   trailVars, depthVars>>

(***************************************************************************)
(* Ghost/decoration assignment: assign_ghost_to_person, get_current_opacity *)
(***************************************************************************)
\* What load_ghost_sprites can leave in self.ghost_sprites: nothing (no
\* folder, no readable .png) or the images in sorted file order.
SpriteLoads == { <<>>, <<"ghost_a.png">>, <<"ghost_a.png", "ghost_b.png">> }

\* Values random.uniform(0.5, 2.0) can draw, in quarter seconds.
CycleTimes == { 2, 4 }

\* dict.get(person_id, None) on a missing key
None == "None"

\* A value that may be None where it is not a string: a frame from the
\* camera, a stored silhouette, a returned centre.
Nothing == [is_none |-> TRUE, value |-> <<>>]
Some(value) == [is_none |-> FALSE, value |-> value]

\* Opacities are in thousandths: 'min_opacity': 0.4, 'max_opacity': 0.8,
\* self.ghost_alpha = 0.7.
MinOpacity == 400
MaxOpacity == 800
GhostAlpha == 700

\* person_id not in self.person_ghost_map
NeedsGhostAlways(map, person_id) == TRUE
NeedsGhost(map, person_id) == person_id \notin DOMAIN map

\* The dict entry written for a new person.
FadeData(cycle_time, t) ==
    [cycle_time |-> cycle_time, start_time |-> t,
     min_opacity |-> MinOpacity, max_opacity |-> MaxOpacity]

\* d[key] = value on a dict
StoreOnly(d, key, value) == [k \in {key} |-> value]
Store(d, key, value) == [k \in DOMAIN d \cup {key} |-> IF k = key THEN value ELSE d[k]]

\* self.person_fade_data[person_id] = {...}
InitFadeSkipped(fade, person_id, cycle_time, t) == fade
InitFade(fade, person_id, cycle_time, t) ==
    Store(fade, person_id, FadeData(cycle_time, t))

\* The two dicts after assign_ghost_to_person(person_id); choice and
\* cycle_time are what random.choice and random.uniform would return, t what
\* time.time() would.
AssignGhost(map, fade, sprites, person_id, choice, cycle_time, t) ==
    IF NeedsGhost(map, person_id) /\ Len(sprites) > 0
    THEN [map  |-> Store(map, person_id, sprites[choice]),
          fade |-> InitFade(fade, person_id, cycle_time, t),
          drew |-> TRUE]
    ELSE [map |-> map, fade |-> fade, drew |-> FALSE]

\* self.person_ghost_map.get(person_id, None)
GetGhostOrFirst(map, person_id) ==
    IF person_id \in DOMAIN map THEN map[person_id] ELSE "ghost_a.png"
GetGhost(map, person_id) == IF person_id \in DOMAIN map THEN map[person_id] ELSE None

\* One call assign_ghost_to_person(person_id).  The random draws happen only
\* inside the two ifs.
assign_ghost_to_person(person_id) ==
    \E choice \in (IF Len(ghost_sprites) > 0 THEN 1..Len(ghost_sprites) ELSE {1}),
       cycle_time \in CycleTimes :
        \E r \in { AssignGhost(person_ghost_map, person_fade_data, ghost_sprites,
                                person_id, choice, cycle_time, now) } :
            /\ person_ghost_map' = r.map
            /\ person_fade_data' = r.fade
            /\ last_call' = [op |-> "assign", id |-> person_id,
                             ret |-> GetGhost(r.map, person_id), drew |-> r.drew,
                             at |-> now]
            /\ first_return' = IF person_id \in DOMAIN first_return THEN first_return
                               ELSE Store(first_return, person_id,
                                          GetGhost(r.map, person_id))
            /\ UNCHANGED <<ghost_sprites, now>>

\* np.sin(cycle_position * 2 * np.pi) in thousandths, for a cycle position
\* given in eighths of a cycle.
SinMilli(eighths) ==
    CASE eighths = 0 -> 0
      [] eighths = 1 -> 707
      [] eighths = 2 -> 1000
      [] eighths = 3 -> 707
      [] eighths = 4 -> 0
      [] eighths = 5 -> -707
      [] eighths = 6 -> -1000
      [] eighths = 7 -> -707

\* sine_value = (np.sin(...) + 1) / 2, in two-thousandths.
SineValueUnshifted(eighths) == SinMilli(eighths)
SineValue(eighths) == SinMilli(eighths) + 1000

\* get_current_opacity(person_id) at time t, in thousandths.  With cycle
\* times of 2 or 4 quarter seconds the cycle position is a whole number
\* of eighths.
CurrentOpacity(fade, person_id, t) ==
    IF person_id \notin DOMAIN fade THEN GhostAlpha
    ELSE LET fade_data == fade[person_id]
             elapsed == t - fade_data.start_time
             eighths == ((elapsed % fade_data.cycle_time) * 8) \div fade_data.cycle_time
             sine_value == SineValue(eighths)
         IN  fade_data.min_opacity
               + (sine_value * (fade_data.max_opacity - fade_data.min_opacity)) \div 2000

get_current_opacity(person_id) ==
    /\ last_call' = [op |-> "opacity", id |-> person_id,
                     ret |-> CurrentOpacity(person_fade_data, person_id, now),
                     drew |-> FALSE, at |-> now]
    /\ UNCHANGED <<ghost_sprites, person_ghost_map, person_fade_data, now,
                   first_return>>

AssignCall ==
    /\ \E person_id \in 1..MaxPersons : assign_ghost_to_person(person_id)
    /\ UNCHANGED <<trackerVars, trailVars, depthVars>>

OpacityCall ==
    /\ \E person_id \in 1..MaxPersons : get_current_opacity(person_id)
    /\ UNCHANGED <<trackerVars, trailVars, depthVars>>

\* The wall clock advances between calls.
Tick ==
    /\ now < MaxTime
    /\ now' = now + 1
    /\ UNCHANGED <<ghost_sprites, person_ghost_map, person_fade_data, last_call,
                   first_return>>
    /\ UNCHANGED <<trackerVars, trailVars, depthVars>>

(***************************************************************************)
(* Silhouette trail: add_silhouette_to_trail                               *)
(***************************************************************************)
\* self.ghost_trail_length
ghost_trail_length == 5

\* Combined silhouettes a frame can produce.
Silhouettes == { "silhouette_a", "silhouette_b" }

\* self.ghost_trails.pop(0)
DropNewest(trail) == SubSeq(trail, 1, Len(trail) - 1)
DropOldest(trail) == Tail(trail)

\* len(self.ghost_trails) > self.ghost_trail_length
TooLong(trail) == Len(trail) > ghost_trail_length

\* The trail after add_silhouette_to_trail(silhouette).  The copy the code
\* appends is a value here.
AddSilhouette(trail, silhouette) ==
    LET appended == Append(trail, silhouette)
    IN  IF TooLong(appended) THEN DropOldest(appended) ELSE appended

add_silhouette_to_trail(silhouette) ==
    /\ ghost_trails' = AddSilhouette(ghost_trails, silhouette)
    /\ pushed' = Append(pushed, silhouette)

PushSilhouette ==
    /\ Len(pushed) < MaxPushes
    /\ \E silhouette \in Silhouettes : add_silhouette_to_trail(silhouette)
    /\ UNCHANGED <<frame_counter, last_silhouette, captureVars>>
    /\ UNCHANGED <<trackerVars, ghostVars, depthVars>>

\* What add_silhouette_to_trail does to the tracker's attributes: it assigns
\* to self.ghost_trails only.
TrailResetsTracker == previous_blobs' = <<>> /\ person_counter' = person_counter
TrailLeavesTracker == UNCHANGED <<previous_blobs, person_counter>>

\* add_silhouette_to_trail called between the frames of a recorded run: once
\* after each frame, until a frame comes with no call before it.
PushBetweenFrames ==
    /\ Len(pushed) + 1 = Len(outputs)
    /\ \E silhouette \in Silhouettes : add_silhouette_to_trail(silhouette)
    /\ TrailLeavesTracker
    /\ UNCHANGED <<person_blobs, issued, observed, detection, frames, followed,
                   outputs, loop, frame_counter, last_silhouette, captureVars,
                   ghostVars, depthVars>>

(***************************************************************************)
(* Depth band and normalize_depth                                          *)
(***************************************************************************)
\* int(val / 10000.0 * 304.8): trackbar position (ten-thousandths of a foot)
\* to whole millimetres, truncated.  The double arithmetic of the code gives
\* this quotient at every position 0..200000 of the trackbars.
Mm(val) == (val * 3048) \div 100000

\* Positions of the 'Min Dist' trackbar (0..100000): 33 * i gives i mm, 7120
\* gives the default 217 mm.
MinPositions == { 33 * i : i \in 0..MaxMm } \cup { 7120 }

\* Positions of the 'Max Dist' trackbar (0..200000): 118964 gives the default
\* 3626 mm.
MaxPositions == { 33 * i : i \in 0..MaxMm } \cup { 118964 }

\* Raw depths of a pixel: whole numbers, 0 where the sensor has no reading.
RawDepths == 0..MaxDepth \cup { 217, 218, 3626, 3627 }

\* d[d <= 0] = np.nan
InvalidBelowZero(d) == d < 0
Invalid(d) == d <= 0

\* np.clip(d, near, far) = minimum(maximum(d, near), far)
Clip(d, near, far) ==
    LET lifted == IF d < near THEN near ELSE d
    IN  IF lifted > far THEN far ELSE lifted

\* float32 has 24 significant bits.
Significand == 2 ^ 24

\* Long division j / n, one bit a step, until the quotient q has 24
\* significant bits: j / n = (q + r / n) / 2^t.
RECURSIVE LongDivision(_, _, _, _)
LongDivision(q, r, t, n) ==
    IF 2 * q >= Significand THEN [q |-> q, r |-> r, t |-> t]
    ELSE IF 2 * r >= n THEN LongDivision(2 * q + 1, 2 * r - n, t + 1, n)
         ELSE LongDivision(2 * q, 2 * r, t + 1, n)

\* The float32 quotient j / n for 0 < j < n, rounded to nearest, ties to
\* even: the value m / 2^t.
Divide(j, n) ==
    LET x == LongDivision(0, j, 0, n)
        up == 2 * x.r > n \/ (2 * x.r = n /\ x.q % 2 = 1)
    IN  [m |-> IF up THEN x.q + 1 ELSE x.q, t |-> x.t]

\* The float32 difference 1.0 - x for x = m / 2^t in (0, 1), in units of
\* 2^-24.  With t = 24 (x >= 0.5) the difference is exact; below 0.5 it lies
\* in [0.5, 1], where float32 values are 2^-24 apart, and is rounded to
\* nearest, ties to even.
OneMinus(x) ==
    IF x.t = 24 THEN Significand - x.m
    ELSE LET unit == 2 ^ (x.t - 24)
             a == x.m \div unit
             b == x.m % unit
         IN  IF 2 * b < unit THEN Significand - a
             ELSE IF 2 * b > unit THEN Significand - a - 1
             ELSE IF a % 2 = 0 THEN Significand - a ELSE Significand - a - 1

\* The float32 product x * 255.0 for x = n3 / 2^24 in [0, 1], as its
\* integer part and what is left of the exact product (in units of 2^-24).
\* Below 1 the product has at most 24 bits and is exact.  From 1 on it is
\* rounded to the float32 spacing of its binade, which takes it to the next
\* whole number when it is half a spacing or less short of it.
Times255(n3) ==
    LET a == 255 * (n3 \div 4096)
        b == 255 * (n3 % 4096)
        t == a + (b \div 4096)
        k == t \div 4096
        f == (t % 4096) * 4096 + (b % 4096)
        spacing == CHOOSE u \in { 2 ^ e : e \in 1..8 } : k < u /\ u <= 2 * k
    IN  IF k = 0 THEN [int |-> 0, frac |-> f]
        ELSE IF 2 * f >= 2 * Significand - spacing THEN [int |-> k + 1, frac |-> 0]
        ELSE [int |-> k, frac |-> f]

\* d.astype(np.uint8) on a float in [0, 255]: the fraction is dropped.
AsUint8Rounded(x) == IF 2 * x.frac >= Significand THEN x.int + 1 ELSE x.int
AsUint8(x) == x.int

\* normalize_depth on one pixel of raw depth d, with near = depth_min and
\* far = depth_max.  A depth <= 0 becomes NaN and ends as 0.  near = far
\* divides 0 by 0: NaN, ends as 0.  far < near clips every pixel to far:
\* (far - near) / (far - near) = 1, ends as 0.
NormalizeDepth(d, near, far) ==
    IF Invalid(d) \/ far = near THEN 0
    ELSE LET j == Clip(d, near, far) - near
             n == far - near
         IN  IF j = n THEN 0
             ELSE IF j = 0 THEN AsUint8(Times255(Significand))
             ELSE AsUint8(Times255(OneMinus(Divide(j, n))))

NothingNormalized == [done |-> FALSE, depth |-> 0, near |-> 0, far |-> 0, out |-> 0]

update_min_distance_feet(val) ==
    /\ depth_min' = Mm(val)
    /\ UNCHANGED <<depth_max, normalized, raw_band>>

update_max_distance_feet(val) ==
    /\ depth_max' = Mm(val)
    /\ UNCHANGED <<depth_min, normalized, raw_band>>

normalize_depth(d) ==
    /\ normalized' = [done |-> TRUE, depth |-> d, near |-> depth_min,
                      far |-> depth_max,
                      out |-> NormalizeDepth(d, depth_min, depth_max)]
    /\ UNCHANGED <<depth_min, depth_max, raw_band>>

MoveMinTrackbar ==
    /\ \E val \in MinPositions : update_min_distance_feet(val)
    /\ UNCHANGED <<trackerVars, ghostVars, trailVars>>

MoveMaxTrackbar ==
    /\ \E val \in MaxPositions : update_max_distance_feet(val)
    /\ UNCHANGED <<trackerVars, ghostVars, trailVars>>

NormalizePixel ==
    /\ \E d \in RawDepths : normalize_depth(d)
    /\ UNCHANGED <<trackerVars, ghostVars, trailVars>>

(***************************************************************************)
(* Blob detection: find_all_person_blobs                                   *)
(***************************************************************************)
\* depth.shape of a Kinect frame: 480 rows, 640 columns.
Height == 480
Width == 640

\* cv2.threshold(depth_normalized, 200, 255, cv2.THRESH_BINARY)
BrightnessThreshold == 200
MaskOn == 255

\* if area > 5000
MinBlobArea == 5000

\* A depth frame is the sequence of its connected regions of equal raw
\* depth, in the order cv2.findContours would list them.  A region has the
\* centroid and the area its contour would have (cv2.contourArea; m00 of
\* cv2.moments is the same number) and the raw depth of its pixels.
Region(p, area, depth) == [cx |-> p[1], cy |-> p[2], area |-> area, depth |-> depth]

\* Two regions of one size near the camera, a larger one that is 201
\* bright under the default band, one that is exactly 200 bright, one just
\* under and one exactly at the minimum area.
NearA == Region(<<100, 100>>, 6000, 300)
NearB == Region(<<400, 400>>, 6000, 300)
Bright201 == Region(<<104, 101>>, 8000, 938)
Bright200 == Region(<<200, 100>>, 9000, 952)
Small == Region(<<200, 100>>, 4999, 300)
AtMinimum == Region(<<200, 100>>, 5000, 300)

\* The depth frames the camera delivers.
DepthFrames ==
    { <<>>, <<NearA>>, <<Small>>, <<Bright200>>,
      <<NearA, NearB>>, <<NearB, NearA>>,
      <<NearA, Bright201>>, <<Bright201, NearA>>,
      <<Bright200, Bright201>>, <<Small, NearA>>, <<AtMinimum, NearB>>,
      <<NearA, Bright201, NearB>>, <<NearB, Small, Bright201>> }

\* THRESH_BINARY: maxval where src > thresh, 0 elsewhere.
ThresholdAtLeast(v) == IF v >= BrightnessThreshold THEN MaskOn ELSE 0
Threshold(v) == IF v > BrightnessThreshold THEN MaskOn ELSE 0

\* depth_normalized and mask, region by region.
NormalizedFrame(depth, near, far) ==
    [i \in DOMAIN depth |-> NormalizeDepth(depth[i].depth, near, far)]

Mask(depth_normalized) ==
    [i \in DOMAIN depth_normalized |-> Threshold(depth_normalized[i])]

\* The area test of the loop over the contours.
LargeEnoughAlways(area) == TRUE
LargeEnough(area) == area > MinBlobArea

\* M["m00"] > 0 and the bounds check of the centroid.
HasCentroid(r) ==
    /\ r.area > 0
    /\ 0 <= r.cy /\ r.cy < Height
    /\ 0 <= r.cx /\ r.cx < Width

\* The tuple (cx, cy, blob_depth, contour) appended for contour i; the
\* contour is named by its place in the frame and carries its area.
PersonBlob(depth, i) ==
    [cx |-> depth[i].cx, cy |-> depth[i].cy, depth |-> depth[i].depth,
     contour |-> i, area |-> depth[i].area, id |-> NoId]

\* The loop over the contours: the contours are the regions the mask turns
\* on; one blob is appended for each that passes the tests.
RECURSIVE CollectBlobs(_, _, _)
CollectBlobs(depth, mask, i) ==
    IF i > Len(depth) THEN <<>>
    ELSE IF mask[i] = MaskOn /\ LargeEnough(depth[i].area) /\ HasCentroid(depth[i])
         THEN <<PersonBlob(depth, i)>> \o CollectBlobs(depth, mask, i + 1)
         ELSE CollectBlobs(depth, mask, i + 1)

\* One blob put into a list sorted by area, largest first, behind the blobs
\* of its own area.
RECURSIVE InsertByArea(_, _)
InsertByArea(sorted, b) ==
    IF sorted = <<>> THEN <<b>>
    ELSE IF Head(sorted).area >= b.area
         THEN <<Head(sorted)>> \o InsertByArea(Tail(sorted), b)
         ELSE <<b>> \o sorted

\* person_blobs.sort(key=lambda x: cv2.contourArea(x[3]), reverse=True):
\* list.sort is stable, with reverse=True too.
RECURSIVE SortLargestFirst(_)
SortLargestFirst(blobs) ==
    IF blobs = <<>> THEN <<>>
    ELSE InsertByArea(SortLargestFirst(SubSeq(blobs, 1, Len(blobs) - 1)),
                      blobs[Len(blobs)])

SortByAreaSkipped(blobs) == blobs
SortByArea(blobs) == SortLargestFirst(blobs)

NothingDetected == [frame |-> <<>>, normalized |-> <<>>, mask |-> <<>>]

\* One call find_all_person_blobs(depth), track_people included.
find_all_person_blobs(depth) ==
    \E depth_normalized \in { NormalizedFrame(depth, depth_min, depth_max) } :
      \E mask \in { Mask(depth_normalized) } :
        \E blobs \in { SortByArea(CollectBlobs(depth, mask, 1)) } :
            /\ track_people(blobs)
            /\ detection' = [frame      |-> depth,
                             normalized |-> depth_normalized,
                             mask       |-> mask]

FindBlobs ==
    /\ \E depth \in DepthFrames : find_all_person_blobs(depth)
    /\ UNCHANGED <<observed, frames, followed, outputs, loop, ghostVars, trailVars, depthVars>>

(***************************************************************************)
(* The raw depth band: find_person_center, HandTrackingArt.find_hands      *)
(***************************************************************************)
\* if cv2.contourArea(largest_contour) < 10000
MinPersonArea == 10000

\* self.min_hand_area = 1000, and the upper limit in
\* `self.min_hand_area < area < 50000`
min_hand_area == 1000
MaxHandArea == 50000

\* Frames with regions at, just inside and outside the edges of the bands
\* the control panel can set: one frame with a region of every small raw
\* depth, and frames of several regions of person and of hand size.
BandFrames ==
    { [i \in 1..(MaxDepth + 1) |-> Region(<<100, 100>>, 12000, i - 1)] }
    \cup { <<Region(<<100, 100>>, 12000, 217), Region(<<200, 100>>, 12000, 218),
             Region(<<400, 400>>, 12000, 3626)>>,
           <<Region(<<100, 100>>, 9999, 218), Region(<<400, 400>>, 12000, 3627)>>,
           <<Region(<<100, 100>>, 10000, 3), Region(<<400, 400>>, 20000, 4)>>,
           <<Region(<<100, 100>>, 1000, 2), Region(<<200, 100>>, 1001, 3),
             Region(<<400, 400>>, 50000, 4)>> }

\* (depth > self.depth_min) & (depth < self.depth_max), as uint8 * 255
InBandInclusive(d, near, far) == d >= near /\ d <= far
InBand(d, near, far) == d > near /\ d < far

RawMask(depth, near, far) ==
    [i \in DOMAIN depth |-> IF InBand(depth[i].depth, near, far) THEN MaskOn ELSE 0]

\* The places in the frame of the contours of a mask, in order.
Contours(mask) == { i \in DOMAIN mask : mask[i] = MaskOn }

\* max(contours, key=cv2.contourArea): the first contour of the largest area.
LargestContour(depth, contours) ==
    CHOOSE i \in contours :
        \A j \in contours : \/ depth[j].area < depth[i].area
                            \/ (depth[j].area = depth[i].area /\ i <= j)

\* What find_person_center returns besides the mask: the centre and depth
\* of the largest contour, or None.
PersonCenter(depth, mask) ==
    IF Contours(mask) = {} THEN Nothing
    ELSE LET largest_contour == LargestContour(depth, Contours(mask))
         IN  IF depth[largest_contour].area < MinPersonArea THEN Nothing
             ELSE IF HasCentroid(depth[largest_contour])
                  THEN Some(<<depth[largest_contour].cx, depth[largest_contour].cy,
                              depth[largest_contour].depth>>)
                  ELSE Nothing

\* hand_contours of find_hands: the places of the contours of hand size.
RECURSIVE HandContours(_, _, _)
HandContours(depth, mask, i) ==
    IF i > Len(depth) THEN <<>>
    ELSE IF mask[i] = MaskOn
            /\ min_hand_area < depth[i].area /\ depth[i].area < MaxHandArea
         THEN <<i>> \o HandContours(depth, mask, i + 1)
         ELSE HandContours(depth, mask, i + 1)

NothingMasked ==
    [op |-> "none", frame |-> <<>>, near |-> 0, far |-> 0, mask |-> <<>>,
     result |-> Nothing]

\* One call find_person_center(depth).
find_person_center(depth) ==
    \E mask \in { RawMask(depth, depth_min, depth_max) } :
        /\ raw_band' = [op |-> "find_person_center", frame |-> depth,
                        near |-> depth_min, far |-> depth_max, mask |-> mask,
                        result |-> PersonCenter(depth, mask)]
        /\ UNCHANGED <<depth_min, depth_max, normalized>>

\* One call find_hands(depth) of HandTrackingArt, which keeps its band in
\* depth_min and depth_max too.
find_hands(depth) ==
    \E mask \in { RawMask(depth, depth_min, depth_max) } :
        /\ raw_band' = [op |-> "find_hands", frame |-> depth,
                        near |-> depth_min, far |-> depth_max, mask |-> mask,
                        result |-> Some(HandContours(depth, mask, 1))]
        /\ UNCHANGED <<depth_min, depth_max, normalized>>

FindPersonCenter ==
    /\ \E depth \in BandFrames : find_person_center(depth)
    /\ UNCHANGED <<trackerVars, ghostVars, trailVars>>

FindHands ==
    /\ \E depth \in BandFrames : find_hands(depth)
    /\ UNCHANGED <<trackerVars, ghostVars, trailVars>>

\* The raw depth of a pixel the sensor has no reading for.
NoReading == 0

\* A frame with a region the sensor has no reading for (a shadow) next to a
\* region one millimetre from the sensor.
NoReadingFrames ==
    { <<Region(<<100, 100>>, 12000, NoReading), Region(<<400, 400>>, 20000, 1)>> }

\* normalize_depth reaching a pixel without a reading.
NormalizeNoReading ==
    /\ normalize_depth(NoReading)
    /\ UNCHANGED <<trackerVars, ghostVars, trailVars>>

\* find_person_center on a frame with pixels without a reading.
FindPersonCenterNoReading ==
    /\ \E depth \in NoReadingFrames : find_person_center(depth)
    /\ UNCHANGED <<trackerVars, ghostVars, trailVars>>

(***************************************************************************)
(* The main loops: SimplePersonGhost.run and ParticleGhostingEffect.run    *)
(***************************************************************************)
\* self.frame_skip = 2
frame_skip == 2

\* What get_depth_data hands the loop: None or a depth frame.
LoopFrames == { <<>>, <<NearA>>, <<NearB>>, <<Small, NearA>>, <<NearA, NearB>> }
DepthInputs == { Nothing } \cup { Some(depth) : depth \in LoopFrames }

\* What get_rgb_data hands the loop: None or a colour frame.
RgbInputs == { None, "rgb" }

\* The negation of `if depth is None or rgb is None`, whose branch ends in
\* continue.
HaveDepthOnly(depth, rgb) == ~depth.is_none
HaveFrames(depth, rgb) == ~(depth.is_none \/ rgb = None)

\* The key the user has down during an iteration: what cv2.waitKey(1) & 0xFF
\* gives when the iteration calls it ("none" for 255, no key).  The s key
\* writes the output image to a file and changes no attribute; it counts as
\* no key here.
Keys == { "none", "q" }

\* `key = cv2.waitKey(1) & 0xFF`, the last statement group of the loop body:
\* an iteration that ended in continue never reaches it.
WaitKeyCalled(did) == did = "processed"

\* `if key == ord('q'): break`
Break(did, key) == WaitKeyCalled(did) /\ key = "q"

NotRunning == [running |-> "none", did |-> "nothing", depth |-> FALSE, rgb |-> FALSE,
               key |-> "none", checked |-> FALSE, exited |-> FALSE]

\* The loop that runs, what its last iteration got and did, the key that was
\* down during it, whether the iteration looked at the key, and whether it
\* left the loop.
Iteration(program, depth, rgb, did, key) ==
    [running |-> program, did |-> did, depth |-> ~depth.is_none, rgb |-> rgb # None,
     key |-> key, checked |-> WaitKeyCalled(did), exited |-> Break(did, key)]

\* The person_id the drawing loop unpacks for blob i: the fifth element of
\* the tuple, which track_people always supplies.
PersonIdByIndex(blobs, i) == i
PersonId(blobs, i) == blobs[i].id

\* The calls the drawing loop makes for blob i and on: assign_ghost_to_person
\* and, where a sprite came back, get_current_opacity.  d holds the two
\* dicts and the call history; the result is every d the random draws allow.
RECURSIVE DrawGhosts(_, _, _)
DrawGhosts(blobs, i, d) ==
    IF i > Len(blobs) THEN { d }
    ELSE UNION {
        LET person_id == PersonId(blobs, i)
            r == AssignGhost(d.map, d.fade, ghost_sprites, person_id,
                             choice, cycle_time, now)
            ghost_sprite == GetGhost(r.map, person_id)
        IN  DrawGhosts(blobs, i + 1,
              [map   |-> r.map,
               fade  |-> r.fade,
               first |-> IF person_id \in DOMAIN d.first THEN d.first
                         ELSE Store(d.first, person_id, ghost_sprite),
               last  |-> IF ghost_sprite # None
                         THEN [op |-> "opacity", id |-> person_id,
                               ret |-> CurrentOpacity(r.fade, person_id, now),
                               drew |-> FALSE, at |-> now]
                         ELSE [op |-> "assign", id |-> person_id,
                               ret |-> ghost_sprite, drew |-> r.drew, at |-> now]])
        : choice \in (IF Len(ghost_sprites) > 0 THEN 1..Len(ghost_sprites) ELSE {1}),
          cycle_time \in CycleTimes }

\* One iteration of `while True` in SimplePersonGhost.run.
SimpleIteration ==
    /\ loop.running \in { "none", "simple_person_ghost" }
    /\ ~loop.exited
    /\ \E depth \in DepthInputs, rgb \in RgbInputs :
          IF HaveFrames(depth, rgb)
          THEN /\ find_all_person_blobs(depth.value)
               /\ \E d \in DrawGhosts(person_blobs', 1,
                                      [map |-> person_ghost_map, fade |-> person_fade_data,
                                       first |-> first_return, last |-> last_call]) :
                     /\ person_ghost_map' = d.map
                     /\ person_fade_data' = d.fade
                     /\ first_return' = d.first
                     /\ last_call' = d.last
               /\ \E key \in Keys :
                     loop' = Iteration("simple_person_ghost", depth, rgb, "processed", key)
               /\ UNCHANGED <<observed, frames, followed, outputs, ghost_sprites, now,
                              trailVars, depthVars>>
          ELSE /\ \E key \in Keys :
                     loop' = Iteration("simple_person_ghost", depth, rgb, "skipped", key)
               /\ UNCHANGED <<previous_blobs, person_counter, person_blobs, issued,
                              observed, detection, frames, followed, outputs,
                              ghostVars, trailVars, depthVars>>

\* combined_silhouette: the contours of the blobs filled in on an empty
\* image; a silhouette is named by the centroids of the contours drawn, in
\* increasing order.
RECURSIVE CombinedSilhouette(_)
CombinedSilhouette(blobs) ==
    IF blobs = <<>> THEN <<>>
    ELSE LET rest == CombinedSilhouette(Tail(blobs))
             c == <<Head(blobs).cx, Head(blobs).cy>>
             before == SelectSeq(rest, LAMBDA x : x[1] < c[1] \/ (x[1] = c[1] /\ x[2] < c[2]))
             after == SelectSeq(rest, LAMBDA x : x[1] > c[1] \/ (x[1] = c[1] /\ x[2] > c[2]))
         IN  before \o <<c>> \o after

\* np.any(combined_silhouette)
AnyPixel(silhouette) == silhouette # <<>>

\* The silhouette pushed by an iteration, None for no push.
SilhouetteToPushAlways(blobs, should_process_silhouette, last) ==
    IF should_process_silhouette THEN Some(CombinedSilhouette(blobs)) ELSE last
SilhouetteToPush(blobs, should_process_silhouette, last) ==
    IF blobs # <<>> /\ should_process_silhouette
    THEN IF AnyPixel(CombinedSilhouette(blobs))
         THEN Some(CombinedSilhouette(blobs)) ELSE Nothing
    ELSE IF blobs # <<>> /\ ~should_process_silhouette
         THEN last
         ELSE Nothing

\* self.time_exposure_duration = 10.0, in the quarter seconds of the clock
time_exposure_duration == 40

\* `if elapsed_time < self.time_exposure_duration`
StillCapturingNever(elapsed_time) == FALSE
StillCapturing(elapsed_time) == elapsed_time < time_exposure_duration

\* average_frames_with_noise_reduction(frames_list): None for an empty list,
\* else an image, named by the frames it is the average of.
average_frames_with_noise_reduction(frames_list) ==
    IF frames_list = <<>> THEN Nothing ELSE Some(frames_list)

\* `if self.capture_background:` and `if self.time_exposure_start_time is not
\* None:` of an iteration that has rgb_mirrored, at time t: the four
\* attributes as the iteration leaves them.
TimeExposure(rgb_mirrored, t) ==
    LET start == IF capture_background THEN Some(t) ELSE time_exposure_start_time
        frames_list == IF capture_background THEN <<>> ELSE time_exposure_frames_list
    IN  IF start.is_none
        THEN [capture_background |-> FALSE, start_time |-> start,
              frames_list |-> frames_list, background_image |-> background_image]
        ELSE IF StillCapturing(t - start.value)
             THEN [capture_background |-> FALSE, start_time |-> start,
                   frames_list |-> Append(frames_list, rgb_mirrored),
                   background_image |-> background_image]
             ELSE [capture_background |-> FALSE, start_time |-> Nothing,
                   frames_list |-> <<>>,
                   background_image |-> average_frames_with_noise_reduction(frames_list)]

\* One iteration of `while True` in ParticleGhostingEffect.run with the
\* depth frame drawn from depths.  The particles themselves are not part of
\* the state here.
ParticleStep(depths) ==
    /\ loop.running \in { "none", "particle_ghosting_effect" }
    /\ ~loop.exited
    /\ \E depth \in depths, rgb \in RgbInputs :
          IF HaveFrames(depth, rgb)
          THEN /\ frame_counter < MaxIterations
               /\ \E e \in { TimeExposure(rgb, now) } :
                     /\ capture_background' = e.capture_background
                     /\ time_exposure_start_time' = e.start_time
                     /\ time_exposure_frames_list' = e.frames_list
                     /\ background_image' = e.background_image
               /\ restarted' = (restarted \/ (capture_background
                                               /\ ~time_exposure_start_time.is_none))
               /\ frame_counter' = frame_counter + 1
               /\ find_all_person_blobs(depth.value)
               /\ \E push \in { SilhouetteToPush(person_blobs',
                                                 frame_counter' % frame_skip = 0,
                                                 last_silhouette) } :
                     /\ IF ~push.is_none
                        THEN add_silhouette_to_trail(push.value)
                        ELSE UNCHANGED <<ghost_trails, pushed>>
                     /\ last_silhouette' =
                           IF person_blobs' # <<>> /\ frame_counter' % frame_skip = 0
                              /\ ~push.is_none
                           THEN push ELSE last_silhouette
               /\ \E key \in Keys :
                     loop' = Iteration("particle_ghosting_effect", depth, rgb, "processed", key)
               /\ UNCHANGED <<observed, frames, followed, outputs, ghostVars, depthVars>>
          ELSE /\ \E key \in Keys :
                     loop' = Iteration("particle_ghosting_effect", depth, rgb, "skipped", key)
               /\ UNCHANGED <<previous_blobs, person_counter, person_blobs, issued,
                              observed, detection, frames, followed, outputs,
                              ghostVars, trailVars, depthVars>>

ParticleIteration == ParticleStep(DepthInputs)

\* What get_depth_data hands the loop while nobody stands in front of the
\* camera, which is when a background is captured.
EmptyRoomInputs == { Nothing, Some(<<>>) }

ParticleIterationEmptyRoom == ParticleStep(EmptyRoomInputs)

\* capture_background_ui, and the click on the Capture BG button in
\* mouse_callback: self.capture_background = True
CaptureBackgroundUi ==
    /\ capture_background' = TRUE
    /\ UNCHANGED <<background_image, time_exposure_start_time,
                   time_exposure_frames_list, restarted>>
    /\ UNCHANGED <<ghost_trails, pushed, frame_counter, last_silhouette>>
    /\ UNCHANGED <<trackerVars, ghostVars, depthVars>>

\* The wall clock advances by the length of a time exposure.
WaitExposure ==
    /\ now < MaxTime * time_exposure_duration
    /\ now' = now + time_exposure_duration
    /\ UNCHANGED <<ghost_sprites, person_ghost_map, person_fade_data, last_call,
                   first_return>>
    /\ UNCHANGED <<trackerVars, trailVars, depthVars>>

(***************************************************************************)
(* Initial state: the object as __init__ leaves it.                        *)
(***************************************************************************)
Init ==
    /\ previous_blobs = <<>>
    /\ person_counter = 0
    /\ person_blobs = <<>>
    /\ issued = <<>>
    /\ observed = NothingObserved
    /\ detection = NothingDetected
    /\ frames = <<>>
    /\ followed = NotFollowed
    /\ outputs = <<>>
    /\ ghost_sprites \in SpriteLoads
    /\ person_ghost_map = <<>>
    /\ person_fade_data = <<>>
    /\ now = 0
    /\ last_call = [op |-> "none", id |-> 0, ret |-> None, drew |-> FALSE, at |-> 0]
    /\ first_return = <<>>
    /\ ghost_trails = <<>>
    /\ pushed = <<>>
    /\ depth_min = 217
    /\ depth_max = 3626
    /\ normalized = NothingNormalized
    /\ raw_band = NothingMasked
    /\ frame_counter = 0
    /\ last_silhouette = Nothing
    /\ capture_background = FALSE
    /\ background_image = Nothing
    /\ time_exposure_start_time = Nothing
    /\ time_exposure_frames_list = <<>>
    /\ restarted = FALSE
    /\ loop = NotRunning

\* The tracker fed arbitrary frames.
SpecTrack == Init /\ [][TrackFrame]_vars

\* The tracker fed arbitrary frames in which one object is followed.
SpecFollow == Init /\ [][FollowFrame]_vars

\* The tracker fed recorded single-blob frames.
SpecScenario == Init /\ [][FeedFrame]_vars

\* The tracker fed frames, its outputs recorded.
SpecRecord == Init /\ [][RecordFrame]_vars

\* The decoration calls in any order, for any ids, as time passes.
NextGhost == AssignCall \/ OpacityCall \/ Tick
SpecGhost == Init /\ [][NextGhost]_vars

\* Silhouettes pushed to the trail.
SpecTrail == Init /\ [][PushSilhouette]_vars

\* Depth frames passed to find_all_person_blobs under the default band.
SpecBlobs == Init /\ [][FindBlobs]_vars

\* One of the two main loops, fed frames or nothing by the camera.  An
\* iteration takes a small part of the quarter second the clock counts in,
\* so the clock stands still here; SpecGhost has the calls as time passes.
\* A recorded run of the tracker with pushes to the trail in between.
NextTrailed == RecordFrame \/ PushBetweenFrames
SpecTrailed == Init /\ [][NextTrailed]_vars

\* Pixels without a reading under both ways of masking, while the control
\* panel moves the band.
NextNoReading ==
    MoveMinTrackbar \/ MoveMaxTrackbar \/ NormalizeNoReading \/ FindPersonCenterNoReading
SpecNoReading == Init /\ [][NextNoReading]_vars

\* The loop of the particle effect in front of an empty room, with the
\* Capture BG button pressed at any time and the clock running.
NextCapture == ParticleIterationEmptyRoom \/ CaptureBackgroundUi \/ Tick \/ WaitExposure
SpecCapture == Init /\ [][NextCapture]_vars

NextRun == SimpleIteration \/ ParticleIteration
SpecRun == Init /\ [][NextRun]_vars

\* Frames masked by the raw depth band while the control panel moves it.
NextBand == MoveMinTrackbar \/ MoveMaxTrackbar \/ FindPersonCenter \/ FindHands
SpecBand == Init /\ [][NextBand]_vars

\* Pixels normalised while the control panel moves the depth band.
NextNorm == MoveMinTrackbar \/ MoveMaxTrackbar \/ NormalizePixel
SpecNorm == Init /\ [][NextNorm]_vars

(***************************************************************************)
(* Claims about the identity tracker                                       *)
(***************************************************************************)
\* C1, state part: the ids minted over the run are strictly increasing, so
\* no id is ever issued twice.
C1_IssuedIncreasing ==
    \A i, j \in 1..Len(issued) : i < j => issued[i] < issued[j]

\* C1, step part: person_counter never decreases, and the ids a call mints
\* are person_counter + 1, person_counter + 2, ... in minting order, the
\* counter ending at the last of them.
C1_MintStep ==
    /\ person_counter' >= person_counter
    /\ Len(issued') >= Len(issued)
    /\ person_counter' = person_counter + (Len(issued') - Len(issued))
    /\ \A n \in 1..Len(issued') :
          issued'[n] = IF n <= Len(issued) THEN issued[n]
                       ELSE person_counter + (n - Len(issued))

\* C1: every newly created identity gets id = person_counter + 1 at its
\* creation, minted ids are strictly increasing over the whole run,
\* person_counter never decreases and no id is issued twice, even after
\* the entity that held it has disappeared.
C1_IdsNeverReused == [](C1_IssuedIncreasing) /\ [][C1_MintStep]_vars

\* C1 witness: three ids have been minted, an earlier one has left the
\* tracker state and the latest one is in it.
C1_Witness ==
    /\ Len(issued) >= 3
    /\ \E n \in 1..(Len(issued) - 1) : issued[n] \notin IdsOf(previous_blobs)
    /\ issued[Len(issued)] \in IdsOf(previous_blobs)

\* C2 as claimed: while an object's blob is in every frame and moves less
\* than 100 px from frame to frame, the blob carries the id it had in the
\* first frame of the run, whatever other blobs and entities are present.
C2_ObjectKeepsIdWhateverElse ==
    followed.index # 0 => previous_blobs[followed.index].id = followed.id0

\* C2 amended: it carries that id provided that in each frame of the run no
\* other blob is under 100 px of the object's previous centroid and no other
\* entity's last centroid is under 100 px of the object's blob.
C2_IsolatedObjectKeepsId ==
    (followed.index # 0 /\ followed.isolated)
        => /\ previous_blobs[followed.index].id = followed.id0
           /\ person_blobs[followed.index].id = followed.id0

\* C2 witness: an object that moved has kept its id in a frame holding a
\* second blob, every frame of its run having met the proviso.
C2_Witness ==
    /\ followed.index # 0
    /\ followed.isolated
    /\ followed.moved
    /\ Len(person_blobs) >= 2
    /\ person_blobs[followed.index].id = followed.id0

\* A blob more than 100 px from the last centroid of every existing entity.
FarFromAll(prev, b) ==
    \A k \in DOMAIN prev : D2(prev[k], b) > MatchDistance * MatchDistance

\* C3: two blobs of one frame, each farther than 100 px from every existing
\* entity, get no existing id: both get new ids, distinct, greater than
\* every id issued before, and increasing in blob-list order.
C3_FarBlobsGetNewIds ==
    [][\A i, j \in DOMAIN person_blobs' :
          /\ i < j
          /\ FarFromAll(previous_blobs, person_blobs'[i])
          /\ FarFromAll(previous_blobs, person_blobs'[j])
          => /\ person_blobs'[i].id \notin IdsOf(previous_blobs)
             /\ person_blobs'[j].id \notin IdsOf(previous_blobs)
             /\ \A n \in 1..Len(issued) : issued[n] < person_blobs'[i].id
             /\ person_blobs'[i].id > person_counter
             /\ person_blobs'[i].id < person_blobs'[j].id]_vars

\* C3 witness: the last call met two such blobs while an entity existed, and
\* its output holds two ids minted by it.
C3_Witness ==
    /\ observed.far_pair
    /\ Len(person_blobs) >= 2
    /\ Len(issued) >= 3
    /\ person_blobs[1].id = issued[Len(issued) - 1]
    /\ person_blobs[2].id = issued[Len(issued)]

\* The three frames of the scenario.
Frame1 == << Blob(<<100, 100>>) >>
Frame2 == << Blob(<<104, 101>>) >>
Frame3 == << Blob(<<400, 400>>) >>

\* C4: from a fresh tracker, a blob at (100,100) comes out alone with id 1,
\* then a blob at (104,101) comes out with id 1, then a blob at (400,400)
\* comes out alone with id 2 and id 1 is absent.
C4_ThreeFrameScenario ==
    /\ frames = <<Frame1>> =>
          person_blobs = << [cx |-> 100, cy |-> 100, id |-> 1] >>
    /\ frames = <<Frame1, Frame2>> =>
          person_blobs = << [cx |-> 104, cy |-> 101, id |-> 1] >>
    /\ frames = <<Frame1, Frame2, Frame3>> =>
          /\ person_blobs = << [cx |-> 400, cy |-> 400, id |-> 2] >>
          /\ 1 \notin IdsOf(person_blobs)
          /\ IdsOf(previous_blobs) = {2}

\* C4 witness: the three frames have been fed.
C4_Witness == frames = <<Frame1, Frame2, Frame3>> /\ Len(person_blobs) = 1

\* The blobs entity k finds unmatched: those not carrying the id of an
\* entity that came before it in the list.
UnmatchedFor(prev, out, k) ==
    { i \in DOMAIN out : \A k2 \in 1..(k - 1) : out[i].id # prev[k2].id }

\* C5: each previous entity, in list order, is matched to the blob of
\* minimum distance among the blobs not yet matched, and only if that
\* distance is strictly under 100; a blob at 100 or more is never matched
\* to it, and an entity with no unmatched blob under 100 px matches nothing.
C5_MatchingRule ==
    [][\A k \in DOMAIN previous_blobs :
          LET e == previous_blobs[k]
              U == UnmatchedFor(previous_blobs, person_blobs', k)
              mine == { i \in DOMAIN person_blobs' : person_blobs'[i].id = e.id }
          IN  /\ Cardinality(mine) <= 1
              /\ \A i \in mine :
                    /\ i \in U
                    /\ D2(e, person_blobs'[i]) < MatchDistance * MatchDistance
                    /\ \A i2 \in U :
                          D2(e, person_blobs'[i]) <= D2(e, person_blobs'[i2])
              /\ mine = {} =>
                    \A i \in U :
                        D2(e, person_blobs'[i]) >= MatchDistance * MatchDistance]_vars

\* C5 witness: the last call's first entity had two unmatched blobs under
\* 100 px and took the nearer one, second in the list.
C5_Witness == observed.nearest_of_two /\ Len(person_blobs) >= 2

\* The entry of id person_id in both dicts is after the step what it was
\* before it.
DecorationKept(person_id) ==
    /\ person_id \in DOMAIN person_ghost_map'
    /\ person_ghost_map'[person_id] = person_ghost_map[person_id]
    /\ person_id \in DOMAIN person_fade_data'
    /\ person_fade_data'[person_id] = person_fade_data[person_id]

\* C6: once an id has a sprite and fade parameters (cycle_time, start_time,
\* min_opacity, max_opacity), no later call of assign_ghost_to_person or
\* get_current_opacity, for that id or another, changes them.
C6_DecorationNeverChanges ==
    [][\A person_id \in DOMAIN person_ghost_map : DecorationKept(person_id)]_vars

\* C6 witness: two ids were decorated at different times, and the opacity
\* of the earlier one has been asked for after both, its decoration being
\* what its first assign call returned and stamped.
C6_Witness ==
    /\ DOMAIN person_ghost_map = 1..MaxPersons
    /\ \E p, q \in DOMAIN person_fade_data :
          /\ person_fade_data[p].start_time < person_fade_data[q].start_time
          /\ person_fade_data[q].start_time < now
          /\ last_call.op = "opacity"
          /\ last_call.id = p
          /\ person_ghost_map[p] = first_return[p]

\* A call of assign_ghost_to_person for an id it was called for before:
\* it changes neither dict nor the sprite list, draws no random value, and
\* returns what the first call returned.
SecondCallChangesNothing(person_id) ==
    (person_id \in DOMAIN first_return /\ assign_ghost_to_person(person_id))
        => /\ person_ghost_map' = person_ghost_map
           /\ person_fade_data' = person_fade_data
           /\ ghost_sprites' = ghost_sprites
           /\ ~last_call'.drew
           /\ last_call'.ret = first_return[person_id]

\* C7: assign_ghost_to_person is idempotent: a second call for an id returns
\* the sprite the first returned, leaves the stored fade data (start_time
\* included) as the first call set it, draws no random value and changes no
\* state.
C7_AssignIdempotent ==
    [][\A person_id \in 1..MaxPersons : SecondCallChangesNothing(person_id)]_vars

\* C7 witness: the last call was a repeated assign for a decorated id, made
\* after the clock moved on from the first call; it drew nothing and
\* returned the stored sprite.
C7_Witness ==
    /\ last_call.op = "assign"
    /\ ~last_call.drew
    /\ last_call.id \in DOMAIN person_fade_data
    /\ person_fade_data[last_call.id].start_time < now
    /\ last_call.ret = person_ghost_map[last_call.id]
    /\ last_call.ret # None

\* The last n elements of a sequence (all of it if it has fewer).
LastOf(s, n) == IF Len(s) <= n THEN s ELSE SubSeq(s, Len(s) - n + 1, Len(s))

\* C8: the trail never holds more than ghost_trail_length silhouettes, and
\* it holds the last ghost_trail_length pushed ones (all of them while fewer
\* were pushed) in push order, oldest first.
C8_TrailBoundedFifo ==
    /\ Len(ghost_trails) <= ghost_trail_length
    /\ ghost_trails = LastOf(pushed, ghost_trail_length)

\* C8 witness: two silhouettes more than the trail holds were pushed, the
\* trail is full, and the silhouette pushed first is not the one at its head.
C8_Witness ==
    /\ Len(pushed) = ghost_trail_length + 2
    /\ Len(ghost_trails) = ghost_trail_length
    /\ ghost_trails[1] # pushed[1]
    /\ ghost_trails[ghost_trail_length] = pushed[Len(pushed)]

\* A pixel has been normalised under a band with depth_min < depth_max.
NormalizedInBand == normalized.done /\ normalized.near < normalized.far

\* C9 as claimed: for every band depth_min < depth_max, depth_min = 0
\* included, raw depth depth_min maps to 255, raw depth depth_max to 0 and
\* raw depth 0 to 0.
C9_EndsOfEveryBand ==
    NormalizedInBand
        => /\ normalized.depth = normalized.near => normalized.out = 255
           /\ normalized.depth = normalized.far => normalized.out = 0
           /\ normalized.depth = 0 => normalized.out = 0

\* C9 amended: for every band depth_min < depth_max, raw depth depth_max maps
\* to 0 and raw depth 0 to 0; raw depth depth_min maps to 255 when
\* depth_min > 0, and to 0 when depth_min = 0.
C9_EndsOfBand ==
    NormalizedInBand
        => /\ (normalized.depth = normalized.near /\ normalized.near > 0)
                 => normalized.out = 255
           /\ (normalized.depth = normalized.near /\ normalized.near = 0)
                 => normalized.out = 0
           /\ normalized.depth = normalized.far => normalized.out = 0
           /\ normalized.depth = 0 => normalized.out = 0

\* C9 witness: under a band the control panel set, with depth_min > 0, a
\* pixel at depth_min came out as 255.
C9_Witness ==
    /\ NormalizedInBand
    /\ normalized.near > 0
    /\ normalized.near # 217
    /\ normalized.far # 3626
    /\ normalized.depth = normalized.near
    /\ normalized.out = 255

\* 255 * (depth_max - clamp(d)): the exact value v of the claim's formula is
\* this over depth_max - depth_min.
Scaled == 255 * (normalized.far - Clip(normalized.depth, normalized.near, normalized.far))

Span == normalized.far - normalized.near

\* C10 as claimed: for every positive raw depth and band depth_min <
\* depth_max the result is v rounded to the nearest integer (either
\* neighbour when v lies halfway).
C10_RoundsToNearest ==
    (NormalizedInBand /\ normalized.depth > 0)
        => /\ 2 * (Scaled - normalized.out * Span) <= Span
           /\ 2 * (normalized.out * Span - Scaled) <= Span

\* C10 amended: for every positive whole raw depth and band depth_min <
\* depth_max the result is v truncated, not rounded: floor(v) when v is not
\* a whole number; when v is a whole number, v or v - 1 (the float32
\* quotient can fall just short of it), and exactly 255 and 0 at or beyond
\* the two ends of the band.
C10_Truncates ==
    (NormalizedInBand /\ normalized.depth > 0)
        => /\ Scaled % Span # 0 => normalized.out = Scaled \div Span
           /\ Scaled % Span = 0
                 => normalized.out \in { Scaled \div Span, (Scaled \div Span) - 1 }
           /\ normalized.depth <= normalized.near => normalized.out = 255
           /\ normalized.depth >= normalized.far => normalized.out = 0

\* C10 witness: a pixel strictly inside the band whose exact value has a
\* fraction above one half came out as the integer below it.
C10_Witness ==
    /\ NormalizedInBand
    /\ normalized.near < normalized.depth
    /\ normalized.depth < normalized.far
    /\ 2 * (Scaled % Span) > Span
    /\ normalized.out = Scaled \div Span

(***************************************************************************)
(* Claims about blob detection                                             *)
(***************************************************************************)
\* C11: every blob find_all_person_blobs returns has a contour area of at
\* least 5000, no region of the frame below that area is among the blobs,
\* and the tracker's entities are exactly the returned blobs.
C11_BlobsNotBelowMinimum ==
    /\ \A j \in DOMAIN person_blobs : person_blobs[j].area >= MinBlobArea
    /\ \A i \in DOMAIN detection.frame :
          detection.frame[i].area < MinBlobArea
             => \A j \in DOMAIN person_blobs : person_blobs[j].contour # i
    /\ Len(previous_blobs) = Len(person_blobs)
    /\ \A j \in DOMAIN person_blobs :
          /\ previous_blobs[j].id = person_blobs[j].id
          /\ previous_blobs[j].center = <<person_blobs[j].cx, person_blobs[j].cy>>

\* A frame held a bright region under the minimum area next to one above it.
C11_Witness ==
    /\ \E i \in DOMAIN detection.frame :
          /\ detection.frame[i].area < MinBlobArea
          /\ detection.mask[i] = MaskOn
    /\ Len(person_blobs) = 1

\* C12 as stated: the returned list, ids attached, is strictly descending
\* by area.
C12_StrictlyDescending ==
    \A i, j \in DOMAIN person_blobs :
        i < j => /\ person_blobs[i].area > person_blobs[j].area
                 /\ person_blobs[i].id # NoId

\* C12: the returned list, ids attached, is in non-increasing order of area,
\* and blobs of equal area are in the order of their contours.
C12_LargestFirst ==
    \A i, j \in DOMAIN person_blobs :
        i < j => /\ person_blobs[i].area >= person_blobs[j].area
                 /\ person_blobs[i].area = person_blobs[j].area
                       => person_blobs[i].contour < person_blobs[j].contour
                 /\ person_blobs[i].id # NoId
                 /\ person_blobs[j].id # NoId

\* The sort moved a later, larger contour to the front and left two
\* contours of equal area in their order.
C12_Witness ==
    /\ Len(person_blobs) = 3
    /\ person_blobs[1].contour = 2
    /\ person_blobs[2].contour = 1
    /\ person_blobs[3].contour = 3
    /\ person_blobs[1].area > person_blobs[2].area
    /\ person_blobs[2].area = person_blobs[3].area
    /\ \A i \in 1..3 : person_blobs[i].id # NoId

\* C18: a region is on in the mask exactly when its normalised value is
\* above 200, and every returned blob comes from such a region; a region
\* normalised to exactly 200 is background.
C18_ForegroundAboveThreshold ==
    /\ \A i \in DOMAIN detection.frame :
          /\ detection.mask[i] \in {0, MaskOn}
          /\ detection.mask[i] = MaskOn <=> detection.normalized[i] > 200
          /\ detection.normalized[i] = 200
                => \A j \in DOMAIN person_blobs : person_blobs[j].contour # i
    /\ \A j \in DOMAIN person_blobs :
          detection.normalized[person_blobs[j].contour] > 200

\* A frame held a region normalised to exactly 200 and one normalised to 201;
\* only the second became a blob.
C18_Witness ==
    /\ Len(detection.frame) = 2
    /\ detection.normalized[1] = 200
    /\ detection.normalized[2] = 201
    /\ Len(person_blobs) = 1
    /\ person_blobs[1].contour = 2

C14_NormalizerNeverSeesEmptyBand ==
    normalized.done => normalized.near < normalized.far

\* C15: when no sprite could be loaded, initialization fails, so the main
\* loop of the tracker never runs with an empty ghost_sprites list.
C15_NoLoopWithoutSprites ==
    loop.running = "simple_person_ghost" => ghost_sprites # <<>>

\* C16: an iteration in which the camera gave no depth frame or no colour
\* frame is skipped: no stage runs, and the tracker state, the decoration
\* maps, the silhouette trail and the frame counter are as they were.
C16_SkippedIterationChangesNothing ==
    [][(~loop'.depth \/ ~loop'.rgb)
          => /\ loop'.did = "skipped"
             /\ UNCHANGED <<previous_blobs, person_counter, person_blobs, issued,
                            detection, person_ghost_map, person_fade_data,
                            last_call, first_return, ghost_trails, pushed,
                            frame_counter, last_silhouette>>]_vars

\* The particle loop, with people tracked and a trail, got a depth frame but
\* no colour frame.
C16_Witness ==
    /\ loop.running = "particle_ghosting_effect"
    /\ loop.did = "skipped"
    /\ loop.depth
    /\ ~loop.rgb
    /\ previous_blobs # <<>>
    /\ ghost_trails # <<>>
    /\ frame_counter > 1

\* C19: the key sets of person_ghost_map and person_fade_data only grow from
\* one iteration to the next, also for ids the tracker no longer matches.
C19_DecorationsNeverEvicted ==
    [][/\ DOMAIN person_ghost_map \subseteq DOMAIN person_ghost_map'
       /\ DOMAIN person_fade_data \subseteq DOMAIN person_fade_data']_vars

\* A decorated id is no longer among the tracked entities, which now hold
\* another decorated id.
C19_Witness ==
    /\ previous_blobs # <<>>
    /\ \E person_id \in DOMAIN person_ghost_map :
          /\ person_id \in DOMAIN person_fade_data
          /\ \A i \in DOMAIN previous_blobs : previous_blobs[i].id # person_id
    /\ \A i \in DOMAIN previous_blobs : previous_blobs[i].id \in DOMAIN person_ghost_map

\* C20: with an empty sprite set assign_ghost_to_person returns None for
\* every id and adds nothing to the two maps, no opacity is asked for, and
\* the tracker goes on giving every blob an id it has issued.
C20_TrackingWithoutSprites ==
    ghost_sprites = <<>>
       => /\ person_ghost_map = <<>>
          /\ person_fade_data = <<>>
          /\ last_call.op \in { "none", "assign" }
          /\ last_call.ret = None
          /\ \A person_id \in DOMAIN first_return : first_return[person_id] = None
          /\ \A i \in DOMAIN person_blobs :
                /\ person_blobs[i].id \in 1..person_counter
                /\ previous_blobs[i].id = person_blobs[i].id
                /\ loop.running = "simple_person_ghost"
                      => person_blobs[i].id \in DOMAIN first_return

\* Without sprites the loop has asked for a sprite for three ids, the last
\* of them for a blob now in view.
C20_Witness ==
    /\ ghost_sprites = <<>>
    /\ loop.running = "simple_person_ghost"
    /\ DOMAIN first_return = 1..3
    /\ person_counter = 3
    /\ last_call.op = "assign"
    /\ last_call.id = 3
    /\ \E i \in DOMAIN person_blobs : person_blobs[i].id = 3

(***************************************************************************)
(* Claims about the raw depth band                                         *)
(***************************************************************************)
\* C17: under the raw-band policy a pixel is foreground exactly when its raw
\* depth is strictly between depth_min and depth_max; a pixel at depth_min
\* or at depth_max is background.
C17_RawBandExclusive ==
    \A i \in DOMAIN raw_band.frame :
        /\ raw_band.mask[i] \in { 0, MaskOn }
        /\ raw_band.mask[i] = MaskOn
              <=> /\ raw_band.near < raw_band.frame[i].depth
                  /\ raw_band.frame[i].depth < raw_band.far
        /\ raw_band.frame[i].depth \in { raw_band.near, raw_band.far }
              => raw_band.mask[i] = 0

\* A frame with a region at depth_min, one just inside the band and one at
\* depth_max: only the middle one is foreground.
C17_Witness ==
    /\ raw_band.op = "find_person_center"
    /\ raw_band.near < raw_band.far
    /\ Len(raw_band.frame) = 3
    /\ raw_band.frame[1].depth = raw_band.near
    /\ raw_band.frame[3].depth = raw_band.far
    /\ raw_band.mask = <<0, MaskOn, 0>>
    /\ ~raw_band.result.is_none

(***************************************************************************)
(* Claims about the tracker's memory                                       *)
(***************************************************************************)
\* C21: after a frame previous_blobs is the list of (centroid, id) of the
\* blobs that frame returned, and an id missing from one frame's output,
\* an empty one too, is in no later frame's output.
C21_AbsentIdNeverReturns ==
    /\ previous_blobs = [i \in DOMAIN person_blobs |->
                            [center |-> <<person_blobs[i].cx, person_blobs[i].cy>>,
                             id |-> person_blobs[i].id]]
    /\ (outputs # <<>>) => outputs[Len(outputs)] = person_blobs
    /\ \A k, m, n \in DOMAIN outputs :
          (k < m /\ m < n)
             => (IdsOf(outputs[k]) \ IdsOf(outputs[m])) \cap IdsOf(outputs[n]) = {}

\* A blob was seen, then nothing, then a blob at the same centroid again,
\* which got a new id.
C21_Witness ==
    /\ Len(outputs) = 3
    /\ Len(outputs[1]) = 1
    /\ outputs[2] = <<>>
    /\ Len(outputs[3]) = 1
    /\ outputs[3][1].cx = outputs[1][1].cx
    /\ outputs[3][1].cy = outputs[1][1].cy
    /\ outputs[3][1].id # outputs[1][1].id

\* The blob among those at the places in S that is nearest to the centroid
\* of entity e and under 100 px from it, the first of them in the list if
\* several are equally near; 0 if there is none.
NearestIn(e, blobs, S) ==
    LET near == { i \in S : Dist2(blobs[i].cx, blobs[i].cy, e.cx, e.cy)
                               < MatchDistance * MatchDistance }
    IN  IF near = {} THEN 0
        ELSE CHOOSE i \in near :
                \A j \in near :
                    \/ Dist2(blobs[j].cx, blobs[j].cy, e.cx, e.cy)
                          > Dist2(blobs[i].cx, blobs[i].cy, e.cx, e.cy)
                    \/ /\ Dist2(blobs[j].cx, blobs[j].cy, e.cx, e.cy)
                             = Dist2(blobs[i].cx, blobs[i].cy, e.cx, e.cy)
                       /\ i <= j

\* In frame n + 1 the first two entities of frame n have the same nearest
\* blob under 100 px.
Contested(n) ==
    /\ Len(outputs[n]) >= 2
    /\ NearestIn(outputs[n][1], outputs[n + 1], DOMAIN outputs[n + 1]) # 0
    /\ NearestIn(outputs[n][1], outputs[n + 1], DOMAIN outputs[n + 1])
          = NearestIn(outputs[n][2], outputs[n + 1], DOMAIN outputs[n + 1])

\* C23: when one blob is the nearest blob under 100 px of the first two
\* entities of the previous frame, it gets the id of the first; the second
\* entity's id goes to its nearest blob under 100 px among the others, or is
\* not output in this frame if there is none.
C23_FirstEntityWinsTie ==
    \A n \in DOMAIN outputs :
        (n < Len(outputs) /\ Contested(n))
           => LET prev == outputs[n]
                  out == outputs[n + 1]
                  b == NearestIn(prev[1], out, DOMAIN out)
                  next == NearestIn(prev[2], out, DOMAIN out \ {b})
              IN  /\ out[b].id = prev[1].id
                  /\ IF next = 0 THEN prev[2].id \notin IdsOf(out)
                     ELSE out[next].id = prev[2].id

\* The second entity lost its nearest blob to the first and was matched to
\* the other blob of the frame.
C23_Witness ==
    \E n \in DOMAIN outputs :
        /\ n < Len(outputs)
        /\ Contested(n)
        /\ Len(outputs[n + 1]) = 2
        /\ IdsOf(outputs[n + 1]) = { outputs[n][1].id, outputs[n][2].id }
        /\ outputs[n][1].id # outputs[n][2].id

\* C25: track_people returns one record per blob it was given, in the same
\* order and with an id added, and the ids of one frame are pairwise
\* distinct ids the tracker has issued.
C25_OneRecordPerBlobDistinctIds ==
    /\ Len(outputs) = Len(frames)
    /\ \A n \in DOMAIN outputs :
          /\ Len(outputs[n]) = Len(frames[n])
          /\ \A i \in DOMAIN outputs[n] :
                /\ DOMAIN outputs[n][i] = { "cx", "cy", "id" }
                /\ outputs[n][i].cx = frames[n][i].cx
                /\ outputs[n][i].cy = frames[n][i].cy
                /\ outputs[n][i].id \in 1..person_counter
          /\ \A i, j \in DOMAIN outputs[n] :
                i # j => outputs[n][i].id # outputs[n][j].id

\* Two tracked blobs came back in the other order and each kept its id; in
\* a later frame one of them came with a new blob.
C25_Witness ==
    /\ Len(outputs) = 3
    /\ Len(outputs[1]) = 2
    /\ Len(outputs[2]) = 2
    /\ Len(outputs[3]) = 2
    /\ outputs[2][1].id = outputs[1][2].id
    /\ outputs[2][2].id = outputs[1][1].id
    /\ outputs[3][1].id = outputs[1][1].id
    /\ outputs[3][2].id = 3

(***************************************************************************)
(* Claims about the decoration maps                                        *)
(***************************************************************************)
\* C26: person_ghost_map and person_fade_data have the same keys after any
\* calls of assign_ghost_to_person and get_current_opacity.
C26_SameKeys == DOMAIN person_ghost_map = DOMAIN person_fade_data

\* Two ids have a sprite and fade data, and the last call was a repeated
\* assign call for one of them.
C26_Witness ==
    /\ DOMAIN person_ghost_map = { 1, 2 }
    /\ DOMAIN person_fade_data = { 1, 2 }
    /\ last_call.op = "assign"
    /\ ~last_call.drew
    /\ last_call.id \in DOMAIN person_ghost_map

(***************************************************************************)
(* Claims about leaving the main loop                                      *)
(***************************************************************************)
\* C22: every iteration of the main loop looks at the quit key once its
\* frame processing is over, an iteration that got no frame included, and
\* an iteration during which q is down is the last one.
C22_QuitCheckedEveryIteration ==
    loop.running # "none" =>
        /\ loop.checked
        /\ loop.key = "q" => loop.exited

(***************************************************************************)
(* Claims about the trail and the tracker                                  *)
(***************************************************************************)
\* What track_people returns for each of the frames fs when it starts from
\* prev and counter and nothing else is called.
RECURSIVE Replay(_, _, _)
Replay(prev, counter, fs) ==
    IF fs = <<>> THEN <<>>
    ELSE LET r == TrackPeople(prev, counter, Head(fs))
         IN  <<r.blobs>> \o Replay(PreviousFrom(prev, r.blobs), r.counter, Tail(fs))

\* C24: a push to the trail leaves previous_blobs and person_counter as they
\* were, a call of track_people leaves ghost_trails as it was, and the ids
\* given to the frames of a run are those track_people gives to the same
\* frames with no push at all.
C24_TrailAndTrackerIndependent ==
    [][/\ pushed' # pushed => UNCHANGED <<previous_blobs, person_counter>>
       /\ outputs' # outputs => UNCHANGED ghost_trails
       /\ outputs' = Replay(<<>>, 0, frames')]_vars

\* Three frames with a push of a different silhouette after the first and
\* after the second; the blob of the third frame kept the id it had in the
\* first two, so the tracker matched against previous_blobs after each push.
C24_Witness ==
    /\ Len(outputs) = 3
    /\ Len(pushed) = 2
    /\ ghost_trails = pushed
    /\ pushed[1] # pushed[2]
    /\ \A n \in 1..3 : Len(outputs[n]) = 1
    /\ outputs[2][1].id = outputs[1][1].id
    /\ outputs[3][1].id = outputs[1][1].id
    /\ frames[2] # frames[1]

\* C29: in the loop of the ghosting effect an iteration that processed a
\* frame in which no blob was found leaves the trail as it was, and any
\* iteration that processed a frame pushes at most one entry to the trail.
C29_AtMostOnePushPerFrame ==
    [][(loop'.running = "particle_ghosting_effect" /\ frame_counter' # frame_counter)
          => /\ loop'.did = "processed"
             /\ person_blobs' = <<>> => UNCHANGED <<ghost_trails, pushed>>
             /\ \/ UNCHANGED <<ghost_trails, pushed>>
                \/ \E silhouette \in { CombinedSilhouette(person_blobs') }
                                     \cup { last_silhouette.value } :
                      /\ pushed' = Append(pushed, silhouette)
                      /\ ghost_trails' = AddSilhouette(ghost_trails, silhouette)]_vars

\* The loop has pushed twice, one entry being the silhouette of two blobs,
\* and has then processed a frame without a blob: the trail is still there.
C29_Witness ==
    /\ loop.running = "particle_ghosting_effect"
    /\ loop.did = "processed"
    /\ person_blobs = <<>>
    /\ Len(pushed) = 2
    /\ Len(ghost_trails) = 2
    /\ \E n \in DOMAIN pushed : Len(pushed[n]) = 2
    /\ frame_counter >= 3

\* C27: in the loop of simple_person_ghost every key of person_ghost_map and
\* person_fade_data is an id the tracker has issued, between 1 and
\* person_counter, and when sprites were loaded every id of the blobs of the
\* last processed frame has its sprite and fade data.
C27_DecorationsFollowTrackerIds ==
    /\ DOMAIN person_ghost_map \subseteq 1..person_counter
    /\ DOMAIN person_fade_data \subseteq 1..person_counter
    /\ (loop.running = "simple_person_ghost" /\ ghost_sprites # <<>>)
          => \A i \in DOMAIN person_blobs :
                /\ person_blobs[i].id \in DOMAIN person_ghost_map
                /\ person_blobs[i].id \in DOMAIN person_fade_data

\* With sprites loaded the loop has processed a frame of two blobs whose ids
\* are not their positions in the list, and an id of an earlier frame keeps
\* its decoration.
C27_Witness ==
    /\ loop.running = "simple_person_ghost"
    /\ loop.did = "processed"
    /\ ghost_sprites # <<>>
    /\ Len(person_blobs) = 2
    /\ person_blobs[1].id # 1
    /\ person_blobs[2].id # 2
    /\ \E id \in DOMAIN person_ghost_map : id \notin IdsOf(person_blobs)

(***************************************************************************)
(* Claims about pixels without a depth reading                             *)
(***************************************************************************)
\* C28: under a band with 0 <= depth_min < depth_max a pixel of raw depth 0
\* is left out of the raw band mask, and normalize_depth gives it 0, which
\* the threshold of 200 turns into 0 in the mask of find_all_person_blobs.
C28_NoReadingNeverForeground ==
    /\ (/\ normalized.done
        /\ normalized.depth = 0
        /\ 0 <= normalized.near
        /\ normalized.near < normalized.far)
          => /\ normalized.out = 0
             /\ Threshold(normalized.out) = 0
    /\ (/\ raw_band.op = "find_person_center"
        /\ 0 <= raw_band.near
        /\ raw_band.near < raw_band.far)
          => \A i \in DOMAIN raw_band.frame :
                raw_band.frame[i].depth = 0 => raw_band.mask[i] = 0

\* With depth_min = 0 both ways of masking have met a pixel of raw depth 0:
\* the raw band mask left it out and took the region at 1 mm next to it, and
\* normalize_depth was called on it.
C28_Witness ==
    /\ normalized.done
    /\ normalized.depth = 0
    /\ normalized.near = 0
    /\ normalized.far > 0
    /\ raw_band.op = "find_person_center"
    /\ raw_band.near = 0
    /\ raw_band.far > 1
    /\ Len(raw_band.frame) = 2
    /\ raw_band.frame[1].depth = 0
    /\ raw_band.mask = <<0, MaskOn>>

(***************************************************************************)
(* Claims about the capture of the background                              *)
(***************************************************************************)
\* C30: an iteration of the particle loop that has a frame pair leaves
\* capture_background False; a time exposure that completes has at least one
\* frame to average and so sets background_image to an image; and
\* background_image, once an image, is never None again.
C30_BackgroundNeverReverts ==
    [][/\ frame_counter' # frame_counter => ~capture_background'
       /\ (/\ frame_counter' # frame_counter
           /\ time_exposure_start_time'.is_none
           /\ (capture_background \/ ~time_exposure_start_time.is_none))
             => /\ ~background_image'.is_none
                /\ Len(background_image'.value) >= 1
       /\ ~background_image.is_none => ~background_image'.is_none]_vars

\* A background has been captured by a time exposure that was started again
\* by a request made while it was in progress, and with that background in
\* place a new time exposure is in progress.
C30_Witness ==
    /\ ~background_image.is_none
    /\ restarted
    /\ ~time_exposure_start_time.is_none
    /\ time_exposure_frames_list # <<>>
    /\ ~capture_background

====
